---- MODULE Spec2Model ----
(***************************************************************************)
(* Model of workshop_trace_ingestion.py: replay of a recorded corpus of    *)
(* traces and spans over a window of synthetic days.                       *)
(*                                                                         *)
(* Time is counted in milliseconds.  Python dicts are functions whose      *)
(* DOMAIN is the set of keys; every value is a tagged record so that       *)
(* values of different Python types can be compared.                       *)
(*                                                                         *)
(* What the model leaves out:                                              *)
(*  - UTC offsets other than zero: a timestamp is an instant and a flag    *)
(*    telling whether the string carries an offset;                        *)
(*  - float rounding: a scale factor is kept as a quotient, and the        *)
(*    corpora are chosen so that every scaled offset is a whole number of  *)
(*    milliseconds;                                                        *)
(*  - collisions of uuid4 and generate_id: every call returns a new value; *)
(*  - records without an id key (line 132 would raise KeyError).           *)
(* main replays days 1..30; the model replays days 1..MaxDays.             *)
(***************************************************************************)
EXTENDS Integers, Sequences, FiniteSets, TLC

\* ------------------------------------------------------------------ values
None == [tag |-> "none"]
Str(s) == [tag |-> "str", s |-> s]
Num(n) == [tag |-> "num", n |-> n]
\* a JSON string holding an ISO-8601 timestamp of instant t, with or without
\* a UTC offset
Iso(t, aware) == [tag |-> "iso", t |-> t, aware |-> aware]
\* a string that datetime.fromisoformat rejects
BadStr == [tag |-> "str", s |-> "not-a-date"]
\* a datetime.datetime object
Dt(t, aware) == [tag |-> "dt", t |-> t, aware |-> aware]
\* an identifier made by id_helpers.generate_id: n is the serial of the call
\* (every call returns a new identifier), ts the timestamp it embeds
GenId(n, ts) == [tag |-> "genid", n |-> n, ts |-> ts]
\* a key made by uuid.uuid4
Uuid(n) == [tag |-> "uuid", n |-> n]

\* Python truth value of a value
Truthy(v) ==
    CASE v.tag = "none" -> FALSE
      [] v.tag = "str" -> v.s # ""
      [] v.tag = "num" -> v.n # 0
      [] OTHER -> TRUE

\* dict.get(k) and dict.get(k, default)
Get(d, k) == IF k \in DOMAIN d THEN d[k] ELSE None
GetDefault(d, k, dflt) == IF k \in DOMAIN d THEN d[k] ELSE dflt
\* d[k] = v
Put(d, k, v) == [x \in (DOMAIN d) \cup {k} |-> IF x = k THEN v ELSE d[x]]
\* d.pop(k, None) for every k of ks
PopAll(d, ks) == [x \in (DOMAIN d) \ ks |-> d[x]]
\* {k: v for k, v in d.items() if k in ks}
Restrict(d, ks) == [x \in (DOMAIN d) \cap ks |-> d[x]]

\* ------------------------------------------------------- program constants
PROJECT_NAME == "Opik Agent Observability"
DefaultDurationMs == 2500
MinThreads == 3
MaxThreads == 7
MinDelayS == 30
MaxDelayS == 180
MaxStartOffsetS == 14400
MinHour == 9
MaxHour == 17
DayMs == 86400000
\* datetime.datetime.min, far before every instant of the model
DatetimeMin == 0 - 2000000000
\* midnight (UTC) of the day the program runs
TodayMidnight == 0

TraceDenyKeys == {"feedback_scores", "duration", "project_id", "span_count", "llm_span_count"}
allowed_keys == {"id", "parent_span_id", "name", "type", "start_time", "end_time",
                 "metadata", "input", "output", "tags", "usage", "model", "provider",
                 "error_info", "total_cost", "attachments"}

\* ------------------------------------------------------------------ bounds
\* the program replays days 1..30; the model replays days 1..MaxDays
MaxDays == 2
\* how many calls of the sink may raise in one run
MaxFailures == 1

\* ---------------------------------------------------------- pure functions
safe_thread_id(trace) == Get(trace, "thread_id")

parse_datetime(v) ==
    CASE v.tag = "iso" -> Dt(v.t, v.aware)
      [] v.tag = "str" -> None
      [] v.tag = "dt" -> v
      [] OTHER -> None

\* x.replace(tzinfo=utc) when x.tzinfo is None
AsUtc(dt) == Dt(dt.t, TRUE)

\* a float as the quotient num/den; the literal 1.0 is One
One == [num |-> 1, den |-> 1]

compute_scale_factor(trace) ==
    LET original_start == parse_datetime(Get(trace, "start_time"))
        original_end == parse_datetime(Get(trace, "end_time"))
        duration_ms == GetDefault(trace, "duration", Num(0))
    IN  IF ~Truthy(original_start) \/ ~Truthy(original_end) \/ ~Truthy(duration_ms)
        THEN One
        ELSE LET original_span == AsUtc(original_end).t - AsUtc(original_start).t
             IN  IF original_span <= 0 THEN One
                 ELSE [num |-> duration_ms.n, den |-> original_span]


\* ------------------------------------------------- upload_traces_for_day
Min(a, b) == IF a < b THEN a ELSE b

\* the distinct truthy thread ids of the corpus, in order of first appearance
RECURSIVE unique_thread_ids(_)
unique_thread_ids(ts) ==
    IF ts = <<>> THEN <<>>
    ELSE LET rest == unique_thread_ids(SubSeq(ts, 1, Len(ts) - 1))
             tid == safe_thread_id(ts[Len(ts)])
         IN  IF Truthy(tid) /\ \A k \in 1..Len(rest) : rest[k] # tid
             THEN Append(rest, tid) ELSE rest

Range(s) == {s[k] : k \in 1..Len(s)}

\* random.sample(population, size): the sequences of size distinct elements
Samples(population, size) ==
    {s \in [1..size -> Range(population)] : \A a, b \in 1..size : a # b => s[a] # s[b]}

\* traces_by_thread[thread_id], for a thread of threads_for_day
TracesOfThread(ts, threads_for_day, tid) ==
    SelectSeq(ts, LAMBDA t : /\ Truthy(safe_thread_id(t))
                             /\ safe_thread_id(t) \in Range(threads_for_day)
                             /\ safe_thread_id(t) = tid)

\* the sort key of line 125
sort_key(t) ==
    LET p == parse_datetime(Get(t, "start_time"))
    IN  IF Truthy(p) THEN p ELSE Dt(DatetimeMin, TRUE)

\* comparing an offset-naive with an offset-aware datetime raises TypeError
SortRaises(ts) ==
    \E a, b \in 1..Len(ts) : sort_key(ts[a]).aware # sort_key(ts[b]).aware

\* list.sort(key=...): stable, ascending
RECURSIVE Insert(_, _)
Insert(sorted, t) ==
    IF sorted = <<>> THEN <<t>>
    ELSE IF sort_key(sorted[Len(sorted)]).t <= sort_key(t).t
         THEN Append(sorted, t)
         ELSE Append(Insert(SubSeq(sorted, 1, Len(sorted) - 1), t), sorted[Len(sorted)])

RECURSIVE SortByStart(_)
SortByStart(ts) ==
    IF ts = <<>> THEN <<>>
    ELSE Insert(SortByStart(SubSeq(ts, 1, Len(ts) - 1)), ts[Len(ts)])

\* line 138: trace_data_i.get('duration', 2500), in milliseconds
desired_duration(trace) == GetDefault(trace, "duration", Num(DefaultDurationMs)).n

\* line 138: dividing a null duration by 1000.0 raises TypeError
DurationRaises(trace) == GetDefault(trace, "duration", Num(DefaultDurationMs)).tag # "num"

\* a mutant that leaves the cursor at the trace's start
cursor_after_start(start, end) == start

\* line 149: the cursor after a trace
cursor_after(start, end) == end

\* lines 141-143: the cursor before a trace that is not the first
cursor_delayed(base, delay_s) == base + delay_s * 1000

\* a mutant that forgets duration in the list of removed keys
trace_payload_keeps_duration(trace, trace_id, start, end, new_thread_id) ==
    LET d1 == Put(trace, "id", trace_id)
        d2 == Put(d1, "start_time", Dt(start, TRUE))
        d3 == Put(d2, "end_time", Dt(end, TRUE))
        d4 == Put(d3, "thread_id", new_thread_id)
        d5 == PopAll(d4, TraceDenyKeys \ {"duration"})
    IN  Put(d5, "project_name", Str(PROJECT_NAME))

\* lines 155-165: the mapping passed to client.trace
trace_payload(trace, trace_id, start, end, new_thread_id) ==
    LET d1 == Put(trace, "id", trace_id)
        d2 == Put(d1, "start_time", Dt(start, TRUE))
        d3 == Put(d2, "end_time", Dt(end, TRUE))
        d4 == Put(d3, "thread_id", new_thread_id)
        d5 == PopAll(d4, TraceDenyKeys)
    IN  Put(d5, "project_name", Str(PROJECT_NAME))

\* lines 175-179
original_trace_start_of(trace, start) ==
    LET p == parse_datetime(Get(trace, "start_time"))
    IN  IF ~Truthy(p) THEN start ELSE AsUtc(p).t

\* start_time + timedelta(seconds=raw_offset * scale)
map_offset(start, point, origin, s) == start + ((point - origin) * s.num) \div s.den

\* line 172
spans_of_trace(sps, save_id) == SelectSeq(sps, LAMBDA sp : Get(sp, "trace_id") = save_id)

\* lines 182-199: the table of replacement ids; first is the serial of the
\* first identifier generated
RECURSIVE build_replacement_ids(_, _, _, _, _)
build_replacement_ids(list, ots, s, start, first) ==
    IF list = <<>> THEN [tab |-> <<>>, next |-> first]
    ELSE LET prev == build_replacement_ids(SubSeq(list, 1, Len(list) - 1), ots, s, start, first)
             span == list[Len(list)]
             span_id == Get(span, "id")
             p == parse_datetime(Get(span, "start_time"))
             span_start_time == IF ~Truthy(p) THEN ots ELSE AsUtc(p).t
             adjusted == map_offset(start, span_start_time, ots, s)
         IN  IF ~Truthy(span_id) THEN prev
             ELSE [tab |-> Append(SelectSeq(prev.tab, LAMBDA e : e.old # span_id),
                                  [old |-> span_id, new |-> GenId(prev.next, adjusted)]),
                   next |-> prev.next + 1]

\* span_replacement_ids.get(k)
Lookup(tab, k) ==
    IF \E e \in Range(tab) : e.old = k
    THEN (CHOOSE e \in Range(tab) : e.old = k).new
    ELSE None

\* lines 212-233: the start_time or end_time of a rewritten span
rewrite_time(span_dict, key, ots, s, start, fallback) ==
    IF key \in DOMAIN span_dict /\ Truthy(span_dict[key])
    THEN LET o == parse_datetime(span_dict[key])
         IN  IF Truthy(o)
             THEN Put(span_dict, key, Dt(map_offset(start, AsUtc(o).t, ots, s), TRUE))
             ELSE Put(span_dict, key, Dt(fallback, TRUE))
    ELSE span_dict

\* a mutant that leaves parent_span_id as it was in the corpus
rewrite_span_stale_parent(span, tab, ots, s, start, end) ==
    LET d1 == Put(span, "id", Lookup(tab, Get(span, "id")))
        d3 == rewrite_time(d1, "start_time", ots, s, start, start)
        d4 == rewrite_time(d3, "end_time", ots, s, start, end)
        d5 == PopAll(d4, {"duration"})
    IN  Restrict(d5, allowed_keys)

\* lines 203-259: the mapping passed to trace_obj.span
rewrite_span(span, tab, ots, s, start, end) ==
    LET d1 == Put(span, "id", Lookup(tab, Get(span, "id")))
        d2 == Put(d1, "parent_span_id", Lookup(tab, Get(span, "parent_span_id")))
        d3 == rewrite_time(d2, "start_time", ots, s, start, start)
        d4 == rewrite_time(d3, "end_time", ots, s, start, end)
        d5 == PopAll(d4, {"duration"})
    IN  Restrict(d5, allowed_keys)


\* ------------------------------------------------------------ the corpus
A == Str("A")
B == Str("B")

TraceRecord(id, thread, start, end, dur, extra) ==
    LET base == [id |-> Str(id), thread_id |-> thread, start_time |-> start,
                 end_time |-> end, name |-> Str("chat")]
        withDur == IF dur = Str("absent") THEN base ELSE Put(base, "duration", dur)
    IN  IF extra
        THEN [k \in (DOMAIN withDur) \cup {"feedback_scores", "project_id", "span_count",
                                           "llm_span_count"} |->
                 IF k \in DOMAIN withDur THEN withDur[k] ELSE Str("x")]
        ELSE withDur

SpanRecord(id, trace_id, parent, start, end) ==
    LET base == [id |-> id, trace_id |-> Str(trace_id), name |-> Str("step"),
                 duration |-> Num(7), project_id |-> Str("x")]
        d1 == IF parent = Str("absent") THEN base ELSE Put(base, "parent_span_id", parent)
        d2 == IF start = Str("absent") THEN d1 ELSE Put(d1, "start_time", start)
    IN  IF end = Str("absent") THEN d2 ELSE Put(d2, "end_time", end)

StartChoices == {None, Iso(0, TRUE), Iso(4000, TRUE), Iso(0, FALSE)}
DurationChoices == {Str("absent"), None, Num(0), Num(200000), Num(0 - 40000)}
SpanTimeChoices == {Str("absent"), None, BadStr, Iso(2000, TRUE), Iso(2000, FALSE)}
SpanEndChoices == {Str("absent"), None, BadStr, Iso(3000, TRUE)}
ParentChoices == {Str("absent"), Str("s1"), Str("s9")}

\* corpora whose traces vary
TraceCorpora ==
    {<<TraceRecord("t1", A, s1, Iso(4000, TRUE), d1, TRUE),
       TraceRecord("t2", A, s2, Iso(6000, TRUE), Num(2000), FALSE),
       TraceRecord("t3", B, Iso(0, TRUE), Iso(8000, TRUE), Num(4000), FALSE),
       TraceRecord("t4", None, Iso(0, TRUE), Iso(8000, TRUE), Num(4000), FALSE)>> :
        s1 \in StartChoices, d1 \in DurationChoices,
        s2 \in {None, Iso(2000, TRUE)}}

FixedSpans ==
    <<SpanRecord(Str("s2"), "t1", Str("s1"), Iso(2000, TRUE), Iso(3000, TRUE)),
      SpanRecord(Str("s1"), "t1", None, Iso(1000, TRUE), Iso(4000, TRUE)),
      SpanRecord(Str("s3"), "t3", Str("s1"), Iso(0, TRUE), None)>>

\* corpora whose spans vary
FixedTraces ==
    <<TraceRecord("t1", A, Iso(0, TRUE), Iso(4000, TRUE), Num(2000), TRUE),
      TraceRecord("t3", A, None, Iso(8000, TRUE), Num(4000), FALSE)>>

SpanCorpora ==
    {<<SpanRecord(Str("s2"), "t1", p, st, Iso(3000, TRUE)),
       SpanRecord(Str("s1"), "t1", None, Iso(1000, TRUE), en),
       SpanRecord(None, "t1", Str("s1"), Iso(1000, TRUE), Iso(2000, TRUE)),
       SpanRecord(Str("s3"), "t3", Str("s1"), st, en)>> :
        p \in ParentChoices, st \in SpanTimeChoices, en \in SpanEndChoices}

\* the time of day of a day's anchor (hour, minute, second)
AnchorChoices == {<<MinHour, 0, 0>>, <<MaxHour, 59, 59>>}
StartOffsetChoices == {0, MaxStartOffsetS}
DelayChoices == {MinDelayS, MaxDelayS}

\* ------------------------------------------------------------- the state
VARIABLES
    traces, spans,          \* the corpus (load_traces, load_spans)
    pc,                     \* "assign", "replay", "upload", "done", "scale"
    i,                      \* the day of main's current loop
    threads_per_day,        \* day -> sequence of thread ids
    global_thread_id_map,   \* <<thread id, day>> -> synthetic key
    total_traces, total_spans,
    fr,                     \* the locals of upload_traces_for_day
    next_id,                \* serial of the next generate_id call
    next_uuid,              \* serial of the next uuid4 call
    id_origin,              \* serial -> <<day, thread id>> of the replay that made it
    failures,               \* how many sink calls have raised
    attempted,              \* the days upload_traces_for_day was called for
    raised_days,            \* <<day, reason>> of the days whose replay raised
    sink_errors,            \* the sink calls of the current day's replay that raised
    sent_traces, sent_spans, \* the sink calls of the current day's replay
    sf_trace, sf_result     \* argument and result of compute_scale_factor

vars == <<traces, spans, pc, i, threads_per_day, global_thread_id_map, total_traces,
          total_spans, fr, next_id, next_uuid, id_origin, failures, attempted,
          raised_days, sink_errors, sent_traces, sent_spans, sf_trace, sf_result>>

\* the locals before the call and after it returned
NoFrame ==
    [day |-> 0, threads_for_day |-> <<>>, thread_pos |-> 0, thread_id |-> None,
     new_thread_id |-> None, thread_traces |-> <<>>, idx |-> 0, base_time |-> 0,
     trace |-> [id |-> None], start_time |-> 0, end_time |-> 0, scale |-> One,
     original_trace_start |-> 0, trace_spans_list |-> <<>>,
     span_replacement_ids |-> <<>>, span_pos |-> 0, traces_created |-> 0,
     spans_created |-> 0]

InitWith(ts, sps, t) ==
    /\ traces = ts
    /\ spans = sps
    /\ pc = "assign"
    /\ i = 1
    /\ threads_per_day = <<>>
    /\ global_thread_id_map = <<>>
    /\ total_traces = 0
    /\ total_spans = 0
    /\ fr = NoFrame
    /\ next_id = 1
    /\ next_uuid = 1
    /\ id_origin = <<>>
    /\ failures = 0
    /\ attempted = <<>>
    /\ raised_days = {}
    /\ sink_errors = <<>>
    /\ sent_traces = <<>>
    /\ sent_spans = <<>>
    /\ sf_trace = t
    /\ sf_result = One

Init == \E ts \in TraceCorpora : InitWith(ts, FixedSpans, [id |-> None])

SpanInit == \E sps \in SpanCorpora : InitWith(FixedTraces, sps, [id |-> None])


\* ------------------------------------------------------------------ main
\* a mutant that looks the key up by thread id alone
KeyOf_any_day(map, tid, d) ==
    IF \E e \in Range(map) : e.thread = tid
    THEN (CHOOSE e \in Range(map) : e.thread = tid).key
    ELSE None

\* global_thread_id_map.get((thread_id, day))
KeyOf(map, tid, d) ==
    IF \E e \in Range(map) : e.thread = tid /\ e.day = d
    THEN (CHOOSE e \in Range(map) : e.thread = tid /\ e.day = d).key
    ELSE None

\* lines 306-309: one fresh key for every sampled thread that has none
RECURSIVE add_keys(_, _, _, _)
add_keys(map, sampled, d, first) ==
    IF sampled = <<>> THEN [map |-> map, next |-> first]
    ELSE LET prev == add_keys(map, SubSeq(sampled, 1, Len(sampled) - 1), d, first)
             tid == sampled[Len(sampled)]
         IN  IF Truthy(KeyOf(prev.map, tid, d)) THEN prev
             ELSE [map |-> Append(prev.map, [thread |-> tid, day |-> d, key |-> Uuid(prev.next)]),
                   next |-> prev.next + 1]

\* lines 299-309: one round of the scheduling loop
main_assign ==
    /\ pc = "assign"
    /\ i <= MaxDays
    /\ LET ids == unique_thread_ids(traces)
           min_threads == Min(MinThreads, Len(ids))
           max_threads == Min(MaxThreads, Len(ids))
       IN  \E sample_size \in min_threads..max_threads :
             \E sampled_threads \in Samples(ids, sample_size) :
               LET r == add_keys(global_thread_id_map, sampled_threads, i, next_uuid)
               IN  /\ threads_per_day' = Append(threads_per_day, sampled_threads)
                   /\ global_thread_id_map' = r.map
                   /\ next_uuid' = r.next
    /\ i' = i + 1
    /\ UNCHANGED <<traces, spans, pc, total_traces, total_spans, fr, next_id, id_origin,
                   failures, attempted, raised_days, sink_errors, sent_traces, sent_spans,
                   sf_trace, sf_result>>

\* line 317: the replay loop starts after the last round of the scheduling loop
main_assigned ==
    /\ pc = "assign"
    /\ i > MaxDays
    /\ pc' = "replay"
    /\ i' = 1
    /\ UNCHANGED <<traces, spans, threads_per_day, global_thread_id_map, total_traces,
                   total_spans, fr, next_id, next_uuid, id_origin, failures, attempted,
                   raised_days, sink_errors, sent_traces, sent_spans, sf_trace, sf_result>>

\* threads_per_day.get(day_offset, [])
ThreadsOfDay(d) == IF d \in 1..Len(threads_per_day) THEN threads_per_day[d] ELSE <<>>

\* lines 317-319 and 87-111: main calls upload_traces_for_day for day i
upload_begin ==
    /\ pc = "replay"
    /\ i <= MaxDays
    /\ attempted' = Append(attempted, i)
    /\ sent_traces' = <<>>
    /\ sent_spans' = <<>>
    /\ sink_errors' = <<>>
    /\ \E hms \in AnchorChoices :
         LET day == TodayMidnight - i * DayMs
                    + (hms[1] * 3600 + hms[2] * 60 + hms[3]) * 1000
             threads_for_day == ThreadsOfDay(i)
         IN  IF threads_for_day = <<>>
             THEN /\ i' = i + 1
                  /\ UNCHANGED <<pc, fr>>
             ELSE /\ pc' = "upload"
                  /\ fr' = [NoFrame EXCEPT !.day = day, !.threads_for_day = threads_for_day]
                  /\ UNCHANGED i
    /\ UNCHANGED <<traces, spans, threads_per_day, global_thread_id_map, total_traces,
                   total_spans, next_id, next_uuid, id_origin, failures, raised_days,
                   sf_trace, sf_result>>

InSpans == fr.span_pos < Len(fr.trace_spans_list)
InTraces == ~InSpans /\ fr.idx < Len(fr.thread_traces)
InThreads == ~InSpans /\ ~InTraces /\ fr.thread_pos < Len(fr.threads_for_day)

\* a mutant without the try block: the exception ends the run
day_raises_uncaught(why) ==
    /\ raised_days' = raised_days \cup {<<i, why>>}
    /\ i' = i
    /\ pc' = "done"
    /\ fr' = NoFrame

\* lines 324-329: the exception leaves upload_traces_for_day and main goes on
\* with the next day
day_raises(why) ==
    /\ raised_days' = raised_days \cup {<<i, why>>}
    /\ i' = i + 1
    /\ pc' = "replay"
    /\ fr' = NoFrame

\* lines 114-128: one round of the loop over the day's threads
thread_iter ==
    /\ pc = "upload"
    /\ InThreads
    /\ LET thread_id == fr.threads_for_day[fr.thread_pos + 1]
           thread_traces == TracesOfThread(traces, fr.threads_for_day, thread_id)
           new_thread_id == KeyOf(global_thread_id_map, thread_id, i)
           next == [fr EXCEPT !.thread_pos = @ + 1, !.thread_id = thread_id]
       IN  IF thread_traces = <<>> \/ ~Truthy(new_thread_id)
           THEN /\ fr' = next
                /\ UNCHANGED <<pc, i, raised_days>>
           ELSE IF SortRaises(thread_traces)
           THEN day_raises("sort")
           ELSE /\ \E offset_s \in StartOffsetChoices :
                     fr' = [next EXCEPT !.new_thread_id = new_thread_id,
                                        !.thread_traces = SortByStart(thread_traces),
                                        !.idx = 0,
                                        !.base_time = fr.day + offset_s * 1000]
                /\ UNCHANGED <<pc, i, raised_days>>
    /\ UNCHANGED <<traces, spans, threads_per_day, global_thread_id_map, total_traces,
                   total_spans, next_id, next_uuid, id_origin, failures, attempted,
                   sink_errors, sent_traces, sent_spans, sf_trace, sf_result>>


\* a mutant that keeps the length of the original window
new_end_original_window(start, trace) ==
    IF Truthy(parse_datetime(Get(trace, "start_time")))
       /\ Truthy(parse_datetime(Get(trace, "end_time")))
    THEN start + parse_datetime(Get(trace, "end_time")).t
               - parse_datetime(Get(trace, "start_time")).t
    ELSE start + desired_duration(trace)

\* line 146
new_end(start, trace) == start + desired_duration(trace)

\* n copies of x appended to s
RECURSIVE Extend(_, _, _)
Extend(s, x, n) == IF n <= 0 THEN s ELSE Append(Extend(s, x, n - 1), x)

\* lines 130-199: one round of the loop over the thread's traces, up to the
\* table of replacement span ids
trace_iter ==
    /\ pc = "upload"
    /\ InTraces
    /\ LET trace == fr.thread_traces[fr.idx + 1]
           save_id == trace["id"]
           scale == compute_scale_factor(trace)
       IN  IF DurationRaises(trace)
           THEN /\ day_raises("duration")
                /\ UNCHANGED <<next_id, id_origin, failures, sink_errors, sent_traces>>
           ELSE \E delay_s \in (IF fr.idx > 0 THEN DelayChoices ELSE {0}) :
             LET base == IF fr.idx > 0 THEN cursor_delayed(fr.base_time, delay_s)
                         ELSE fr.base_time
                 start_time == base
                 end_time == new_end(start_time, trace)
                 trace_id == GenId(next_id, start_time)
                 trace_data_i == trace_payload(trace, trace_id, start_time, end_time,
                                               fr.new_thread_id)
                 trace_spans_list == spans_of_trace(spans, save_id)
                 ots == original_trace_start_of(trace, start_time)
                 r == build_replacement_ids(trace_spans_list, ots, scale, start_time,
                                            next_id + 1)
             IN  \/ \* client.trace raises
                    /\ failures < MaxFailures
                    /\ failures' = failures + 1
                    /\ sink_errors' = Append(sink_errors, [kind |-> "trace", src |-> trace])
                    /\ next_id' = next_id + 1
                    /\ id_origin' = Append(id_origin, <<i, fr.thread_id>>)
                    /\ day_raises("sink")
                    /\ UNCHANGED sent_traces
                 \/ \* client.trace returns the handle
                    /\ sent_traces' = Append(sent_traces,
                           [src |-> trace, payload |-> trace_data_i,
                            thread |-> fr.thread_id, day_offset |-> i])
                    /\ next_id' = r.next
                    /\ id_origin' = Extend(id_origin, <<i, fr.thread_id>>, r.next - next_id)
                    /\ fr' = [fr EXCEPT !.idx = @ + 1,
                                        !.trace = trace,
                                        !.scale = scale,
                                        !.start_time = start_time,
                                        !.end_time = end_time,
                                        !.base_time = cursor_after(start_time, end_time),
                                        !.traces_created = @ + 1,
                                        !.trace_spans_list = trace_spans_list,
                                        !.original_trace_start = ots,
                                        !.span_replacement_ids = r.tab,
                                        !.span_pos = 0]
                    /\ UNCHANGED <<pc, i, raised_days, failures, sink_errors>>
    /\ UNCHANGED <<traces, spans, threads_per_day, global_thread_id_map, total_traces,
                   total_spans, next_uuid, attempted, sent_spans, sf_trace, sf_result>>

\* a mutant that lets the span's error leave upload_traces_for_day
span_error_propagates == day_raises("sink")

\* lines 264-265: the span's error is printed and the loop goes on
span_error ==
    /\ fr' = [fr EXCEPT !.span_pos = @ + 1]
    /\ UNCHANGED <<pc, i, raised_days>>

\* lines 202-265: one round of the loop that rewrites and submits the spans
span_iter ==
    /\ pc = "upload"
    /\ InSpans
    /\ LET span == fr.trace_spans_list[fr.span_pos + 1]
           filtered_span_dict == rewrite_span(span, fr.span_replacement_ids,
                                              fr.original_trace_start, fr.scale,
                                              fr.start_time, fr.end_time)
       IN  IF ~Truthy(Get(span, "id"))
           THEN /\ fr' = [fr EXCEPT !.span_pos = @ + 1]
                /\ UNCHANGED <<pc, i, raised_days, sent_spans, failures, sink_errors>>
           ELSE \/ \* trace_obj.span raises; the error is printed
                   /\ failures < MaxFailures
                   /\ failures' = failures + 1
                   /\ sink_errors' = Append(sink_errors, [kind |-> "span", src |-> span])
                   /\ span_error
                   /\ UNCHANGED sent_spans
                \/ /\ sent_spans' = Append(sent_spans,
                          [src |-> span, payload |-> filtered_span_dict,
                           trace_pos |-> Len(sent_traces), thread |-> fr.thread_id,
                           day_offset |-> i])
                   /\ fr' = [fr EXCEPT !.span_pos = @ + 1, !.spans_created = @ + 1]
                   /\ UNCHANGED <<pc, i, raised_days, failures, sink_errors>>
    /\ UNCHANGED <<traces, spans, threads_per_day, global_thread_id_map,
                   total_traces, total_spans, next_id, next_uuid, id_origin, attempted,
                   sent_traces, sf_trace, sf_result>>

\* lines 271-272 and 322-323: the day's counts are returned and added up
upload_return ==
    /\ pc = "upload"
    /\ ~InSpans /\ ~InTraces /\ ~InThreads
    /\ total_traces' = total_traces + fr.traces_created
    /\ total_spans' = total_spans + fr.spans_created
    /\ i' = i + 1
    /\ pc' = "replay"
    /\ fr' = NoFrame
    /\ UNCHANGED <<traces, spans, threads_per_day, global_thread_id_map, next_id,
                   next_uuid, id_origin, failures, attempted, raised_days, sink_errors,
                   sent_traces, sent_spans, sf_trace, sf_result>>

\* lines 331-336: the final pause and summary
main_finish ==
    /\ pc = "replay"
    /\ i > MaxDays
    /\ pc' = "done"
    /\ UNCHANGED <<traces, spans, i, threads_per_day, global_thread_id_map, total_traces,
                   total_spans, fr, next_id, next_uuid, id_origin, failures, attempted,
                   raised_days, sink_errors, sent_traces, sent_spans, sf_trace, sf_result>>

Next ==
    \/ main_assign
    \/ main_assigned
    \/ upload_begin
    \/ thread_iter
    \/ trace_iter
    \/ span_iter
    \/ upload_return
    \/ main_finish

Spec == Init /\ [][Next]_vars

SpanSpec == SpanInit /\ [][Next]_vars

\* the corpora of TraceCorpora in which the first trace alone decides whether
\* the sort (an offset-naive start_time) or the division (a null duration)
\* raises
FairInit ==
    \E ts \in TraceCorpora :
        /\ ts[2]["start_time"] = Iso(2000, TRUE)
        /\ ts[1]["start_time"] \in {Iso(0, TRUE), Iso(0, FALSE)}
        /\ Get(ts[1], "duration") \in {None, Num(200000)}
        /\ "duration" \in DOMAIN ts[1]
        /\ InitWith(ts, FixedSpans, [id |-> None])

\* every step of main is taken eventually: the program is sequential and no
\* call blocks
FairSpec == FairInit /\ [][Next]_vars /\ WF_vars(Next)


\* -------------------------------------------- compute_scale_factor alone
TimeChoices == {Str("absent"), None, BadStr, Iso(0, TRUE), Iso(4000, TRUE), Iso(0, FALSE)}

ScaleInputs ==
    {LET d1 == IF st = Str("absent") THEN [id |-> Str("t")] ELSE [id |-> Str("t"), start_time |-> st]
         d2 == IF en = Str("absent") THEN d1 ELSE Put(d1, "end_time", en)
     IN  IF du = Str("absent") THEN d2 ELSE Put(d2, "duration", du) :
        st \in TimeChoices, en \in TimeChoices, du \in DurationChoices \cup {Num(4000)}}

ScaleInit == \E t \in ScaleInputs : InitWith(<<>>, <<>>, t)

\* a call compute_scale_factor(trace)
scale_call ==
    /\ pc = "assign"
    /\ sf_result' = compute_scale_factor(sf_trace)
    /\ pc' = "scale"
    /\ UNCHANGED <<sf_trace, traces, spans, i, threads_per_day, global_thread_id_map, total_traces,
                   total_spans, fr, next_id, next_uuid, id_origin, failures, attempted,
                   raised_days, sink_errors, sent_traces, sent_spans>>

ScaleSpec == ScaleInit /\ [][scale_call]_vars


\* ================================================================ claims
\* the instant of a parsed timestamp, read as UTC when it has no offset
Missing(v) == ~Truthy(parse_datetime(v))
Instant(v) == parse_datetime(v).t

\* C4: compute_scale_factor returns exactly 1.0 whenever start_time, end_time
\* or duration is missing or unparseable, or end_time <= start_time, or
\* duration <= 0 (negative durations included); otherwise it returns
\* (duration / 1000) / (end_time - start_time in seconds).
C4_ScaleIdentity ==
    pc = "scale" =>
      LET st == Get(sf_trace, "start_time")
          en == Get(sf_trace, "end_time")
          du == Get(sf_trace, "duration")
          identity == \/ Missing(st) \/ Missing(en) \/ du.tag # "num"
                      \/ Instant(en) <= Instant(st)
                      \/ du.n <= 0
      IN  IF identity
          THEN sf_result = One
          ELSE sf_result.num * (Instant(en) - Instant(st)) = du.n * sf_result.den

\* the part of C4 the code satisfies: 1.0 when a timestamp is missing or
\* unparseable, the duration is missing or zero, or end_time <= start_time
C4_ScaleIdentityZero ==
    pc = "scale" =>
      LET st == Get(sf_trace, "start_time")
          en == Get(sf_trace, "end_time")
          du == Get(sf_trace, "duration")
          identity == \/ Missing(st) \/ Missing(en) \/ du.tag # "num"
                      \/ Instant(en) <= Instant(st)
                      \/ du.n = 0
      IN  IF identity
          THEN sf_result = One
          ELSE sf_result.num * (Instant(en) - Instant(st)) = du.n * sf_result.den


NewStart(e) == e.payload["start_time"].t
NewEnd(e) == e.payload["end_time"].t

\* C1: within one call of upload_traces_for_day, for consecutive traces of a
\* thread in replay order, the end_time submitted for the first is <= the
\* start_time submitted for the second.
C1_NonOverlap ==
    \A k \in 1..(Len(sent_traces) - 1) :
        sent_traces[k].thread = sent_traces[k + 1].thread
        => NewEnd(sent_traces[k]) <= NewStart(sent_traces[k + 1])

\* two consecutive traces of a thread were submitted, the first one longer
\* than the longest delay
C1_Witness ==
    \E k \in 1..(Len(sent_traces) - 1) :
        /\ sent_traces[k].thread = sent_traces[k + 1].thread
        /\ NewEnd(sent_traces[k]) - NewStart(sent_traces[k]) > MaxDelayS * 1000

\* C2: for traces of the same thread replayed on the same day, original
\* start_time t1 < t2 implies replayed start t1' <= t2', whatever the
\* durations and delays; a trace whose start_time is missing or unparseable
\* is replayed no later than one whose start_time parses.
C2_OrderPreserved ==
    \A a, b \in 1..Len(sent_traces) :
        LET oa == Get(sent_traces[a].src, "start_time")
            ob == Get(sent_traces[b].src, "start_time")
        IN  /\ sent_traces[a].thread = sent_traces[b].thread
            /\ ~Missing(ob)
            /\ (Missing(oa) \/ Instant(oa) < Instant(ob))
            => NewStart(sent_traces[a]) <= NewStart(sent_traces[b])

\* C5 as stated: every submitted trace lasts exactly the duration field of
\* its original record.
C5_DurationIsField ==
    \A k \in 1..Len(sent_traces) :
        /\ "duration" \in DOMAIN sent_traces[k].src
        /\ NewEnd(sent_traces[k]) - NewStart(sent_traces[k])
             = sent_traces[k].src["duration"].n

\* C5 as amended: every submitted trace lasts the duration field of its
\* original record when the record has one, and 2500 ms when it has none,
\* whatever the original window is and whether or not the scale is 1.0.
C5_DurationIsFieldOrDefault ==
    \A k \in 1..Len(sent_traces) :
        NewEnd(sent_traces[k]) - NewStart(sent_traces[k])
          = IF "duration" \in DOMAIN sent_traces[k].src
            THEN sent_traces[k].src["duration"].n
            ELSE DefaultDurationMs

\* submitted: a trace with no duration field, and a trace whose duration
\* differs from its original window
C5_Witness ==
    /\ \E k \in 1..Len(sent_traces) : "duration" \notin DOMAIN sent_traces[k].src
    /\ \E k \in 1..Len(sent_traces) :
          LET t == sent_traces[k].src
          IN  /\ "duration" \in DOMAIN t
              /\ ~Missing(Get(t, "start_time")) /\ ~Missing(Get(t, "end_time"))
              /\ Instant(t["end_time"]) - Instant(t["start_time"]) > 0
              /\ t["duration"].n # Instant(t["end_time"]) - Instant(t["start_time"])

\* C8: no mapping passed to client.trace has one of the keys feedback_scores,
\* duration, project_id, span_count, llm_span_count; the keys of every
\* mapping passed to trace_obj.span are allowed keys, and duration is not
\* one of them.
C8_FieldHygiene ==
    /\ \A k \in 1..Len(sent_traces) :
          (DOMAIN sent_traces[k].payload) \cap
            {"feedback_scores", "duration", "project_id", "span_count", "llm_span_count"} = {}
    /\ \A k \in 1..Len(sent_spans) :
          /\ (DOMAIN sent_spans[k].payload) \subseteq
               {"id", "parent_span_id", "name", "type", "start_time", "end_time",
                "metadata", "input", "output", "tags", "usage", "model", "provider",
                "error_info", "total_cost", "attachments"}
          /\ "duration" \notin DOMAIN sent_spans[k].payload

\* submitted: a trace whose record has all five keys, and a span whose record
\* has duration and a key that is not allowed
C8_Witness ==
    /\ \E k \in 1..Len(sent_traces) :
          {"feedback_scores", "duration", "project_id", "span_count", "llm_span_count"}
            \subseteq DOMAIN sent_traces[k].src
    /\ \E k \in 1..Len(sent_spans) :
          {"duration", "project_id", "trace_id"} \subseteq DOMAIN sent_spans[k].src


\* C3: for spans A and B of one replayed trace where the original
\* A.parent_span_id equals the original B.id, the mapping submitted for A has
\* parent_span_id equal to the id of the mapping submitted for B; the table of
\* replacement ids holds every span id of the trace before a span is rewritten.
C3_ParentLinkage ==
    /\ \A a, b \in 1..Len(sent_spans) :
          /\ sent_spans[a].trace_pos = sent_spans[b].trace_pos
          /\ Get(sent_spans[a].src, "parent_span_id") = Get(sent_spans[b].src, "id")
          => sent_spans[a].payload["parent_span_id"] = sent_spans[b].payload["id"]
    /\ pc = "upload" =>
          \A k \in 1..Len(fr.trace_spans_list) :
              Truthy(Get(fr.trace_spans_list[k], "id"))
              => \E e \in Range(fr.span_replacement_ids) :
                    e.old = Get(fr.trace_spans_list[k], "id")

\* a child was submitted before its parent, both under the same trace
C3_Witness ==
    \E a, b \in 1..Len(sent_spans) :
        /\ a < b
        /\ sent_spans[a].trace_pos = sent_spans[b].trace_pos
        /\ Get(sent_spans[a].src, "parent_span_id") = Get(sent_spans[b].src, "id")
        /\ sent_spans[a].payload["parent_span_id"].tag = "genid"

\* the trace a submitted span belongs to
TraceOf(sp) == sent_traces[sp.trace_pos]

\* what C9 says a span's timestamp is: the trace's new start plus the scaled
\* offset from the original trace start, or the fallback when the span's own
\* timestamp is absent, null or unparseable
C9_Expected(sp, key, fallback) ==
    LET tr == TraceOf(sp)
        v == Get(sp.src, key)
        s == compute_scale_factor(tr.src)
    IN  IF Missing(v) THEN fallback
        ELSE NewStart(tr)
             + ((Instant(v) - Instant(tr.src["start_time"])) * s.num) \div s.den

\* C9: every submitted span starts at the trace's new start plus (original
\* span start - original trace start) * scale, with the scale computed once
\* for its trace, and likewise ends; when the span's own start_time (resp.
\* end_time) is absent, null or unparseable, the submitted start_time (resp.
\* end_time) is the trace's new start (resp. new end).
C9_SpanTimes ==
    \A k \in 1..Len(sent_spans) :
        LET sp == sent_spans[k]
        IN  ~Missing(Get(TraceOf(sp).src, "start_time")) =>
              /\ "start_time" \in DOMAIN sp.payload
              /\ sp.payload["start_time"] = Dt(C9_Expected(sp, "start_time", NewStart(TraceOf(sp))), TRUE)
              /\ "end_time" \in DOMAIN sp.payload
              /\ sp.payload["end_time"] = Dt(C9_Expected(sp, "end_time", NewEnd(TraceOf(sp))), TRUE)

\* the part of C9 the code satisfies: the same, for span timestamps that are
\* present and not null
C9_SpanTimesPresent ==
    \A k \in 1..Len(sent_spans) :
        LET sp == sent_spans[k]
        IN  ~Missing(Get(TraceOf(sp).src, "start_time")) =>
              /\ Truthy(Get(sp.src, "start_time")) =>
                    sp.payload["start_time"] = Dt(C9_Expected(sp, "start_time", NewStart(TraceOf(sp))), TRUE)
              /\ Truthy(Get(sp.src, "end_time")) =>
                    sp.payload["end_time"] = Dt(C9_Expected(sp, "end_time", NewEnd(TraceOf(sp))), TRUE)

\* C6: a thread assigned to two days has two distinct keys; every trace
\* submitted in day d's replay of thread t has the key of (t, d) as thread_id;
\* every identifier a submitted trace or span carries, as id or as
\* parent_span_id, was generated in the same day's replay of the same thread.
C6_DayIsolation ==
    /\ \A a, b \in 1..Len(global_thread_id_map) :
          a # b => global_thread_id_map[a].key # global_thread_id_map[b].key
    /\ \A k \in 1..Len(sent_traces) :
          LET e == sent_traces[k]
          IN  /\ \E m \in Range(global_thread_id_map) :
                    m.thread = e.thread /\ m.day = e.day_offset
                    /\ e.payload["thread_id"] = m.key
              /\ id_origin[e.payload["id"].n] = <<e.day_offset, e.thread>>
    /\ \A k \in 1..Len(sent_spans) :
          LET e == sent_spans[k]
          IN  \A key \in {"id", "parent_span_id"} :
                 e.payload[key].tag = "genid"
                 => id_origin[e.payload[key].n] = <<e.day_offset, e.thread>>

\* on the second day, a thread that was also replayed on the first day has a
\* trace and a span with a parent submitted
C6_Witness ==
    /\ attempted = <<1, 2>>
    /\ \E k \in 1..Len(sent_spans) :
          /\ sent_spans[k].payload["parent_span_id"].tag = "genid"
          /\ sent_spans[k].day_offset = 2
          /\ \E a, b \in Range(global_thread_id_map) :
                a.thread = sent_spans[k].thread /\ b.thread = a.thread
                /\ a.day = 1 /\ b.day = 2


\* the day whose replay was started last, and whether that replay is over
LastDay == attempted[Len(attempted)]
DayOver == attempted # <<>> /\ pc \in {"replay", "done"}

\* the traces upload_traces_for_day has to replay for day d
TracesOfDay(d) ==
    {traces[k] : k \in {n \in 1..Len(traces) :
        /\ Truthy(safe_thread_id(traces[n]))
        /\ safe_thread_id(traces[n]) \in Range(ThreadsOfDay(d))}}

Sent(log, rec) == \E k \in 1..Len(log) : log[k].src = rec
Failed(kind, rec) == \E e \in Range(sink_errors) : e.kind = kind /\ e.src = rec

\* every span of a submitted trace was submitted, unless its own call raised
SpansContained ==
    \A k \in 1..Len(sent_traces) :
        \A n \in 1..Len(spans) :
            /\ Get(spans[n], "trace_id") = sent_traces[k].src["id"]
            /\ Truthy(Get(spans[n], "id"))
            => Sent(sent_spans, spans[n]) \/ Failed("span", spans[n])

\* no record of the corpus makes the day's replay raise by itself
NoRecordError == \A r \in raised_days : r[1] = LastDay => r[2] = "sink"

\* C10 as stated: when a day's replay is over, a span whose call raised has
\* left its siblings and the later traces submitted, and a trace whose call
\* raised has left the other traces of its thread and of the day's other
\* threads submitted.
C10_RecordContainment ==
    (DayOver /\ NoRecordError) =>
        /\ \A t \in TracesOfDay(LastDay) : Sent(sent_traces, t) \/ Failed("trace", t)
        /\ SpansContained

\* C10 as amended: a span whose call raises leaves its siblings and the later
\* traces submitted and never ends the day's replay; a trace whose call raises
\* ends the day's replay at once, so its spans and whatever the day had left
\* are not submitted; the days after it are still replayed.
C10_DayContainment ==
    /\ (DayOver /\ \A r \in raised_days : r[1] # LastDay) =>
          /\ \A t \in TracesOfDay(LastDay) : Sent(sent_traces, t)
          /\ SpansContained
    /\ (\E e \in Range(sink_errors) : e.kind = "trace") =>
          /\ DayOver
          /\ <<LastDay, "sink">> \in raised_days
          /\ \A e \in Range(sink_errors) : e.kind = "trace" => ~Sent(sent_traces, e.src)
    /\ (attempted # <<>> /\ <<LastDay, "sink">> \in raised_days) =>
          \E e \in Range(sink_errors) : e.kind = "trace"
    /\ pc = "done" => attempted = [d \in 1..MaxDays |-> d]

\* the run is over; on its last day a trace's call raised and a trace of
\* another thread of that day was never submitted
C10_Witness ==
    /\ pc = "done"
    /\ \E e \in Range(sink_errors) :
          /\ e.kind = "trace"
          /\ \E t \in TracesOfDay(LastDay) :
                /\ safe_thread_id(t) # safe_thread_id(e.src)
                /\ ~Sent(sent_traces, t)

\* C7: an exception raised during a day's replay never ends the run: every
\* day is attempted once, in increasing order, whichever earlier days raised,
\* and the run reaches its final summary.
C7_FaultContainment ==
    /\ [](\A k \in 1..Len(attempted) : attempted[k] = k)
    /\ [](pc = "done" => Len(attempted) = MaxDays)
    /\ <>(pc = "done")

\* the run reached its summary although the first day's replay raised
C7_Witness ==
    /\ pc = "done"
    /\ \E r \in raised_days : r[1] = 1
    /\ attempted = [d \in 1..MaxDays |-> d]

====
